---- MODULE Spec2Model ----
(***************************************************************************)
(* tiniargs (src/src/index.ts): a command-line argument tokenizer.         *)
(*                                                                         *)
(* Strings are sequences of one-character strings, so that the regular     *)
(* expressions, startsWith, split and parseInt are computed character by   *)
(* character.  A FlagValue is a record tagged with its runtime type.       *)
(***************************************************************************)
EXTENDS Integers, Sequences, FiniteSets, TLC

\* Largest number of tokens in args.
MaxArgs == 2

\* Largest number of entries of a schema drawn from SchemaEntries.
MaxEntries == 2

----------------------------------------------------------------------------
(* Characters *)

DigitVal == ("0" :> 0) @@ ("1" :> 1) @@ ("2" :> 2) @@ ("3" :> 3) @@ ("4" :> 4)
            @@ ("5" :> 5) @@ ("6" :> 6) @@ ("7" :> 7) @@ ("8" :> 8) @@ ("9" :> 9)

Digits == DOMAIN DigitVal

Letters == {"a", "b", "d", "e", "f", "l", "n", "s", "t", "r", "u", "v", "x",
            "z", "O"}

\* \w of a JavaScript regular expression: [A-Za-z0-9_]
IsWord(c) == c \in Letters \cup Digits \cup {"_"}

\* String.prototype.startsWith
StartsWith(s, p) == Len(s) >= Len(p) /\ SubSeq(s, 1, Len(p)) = p

----------------------------------------------------------------------------
(* Values *)

Undefined == [t |-> "undefined", b |-> FALSE, n |-> 0, s |-> <<>>]
Bool(x)   == [t |-> "boolean", b |-> x, n |-> 0, s |-> <<>>]
Num(x)    == [t |-> "number", b |-> FALSE, n |-> x, s |-> <<>>]
Str(x)    == [t |-> "string", b |-> FALSE, n |-> 0, s |-> x]
\* a function object, the value of a property inherited from Object.prototype
Inherited == [t |-> "function", b |-> FALSE, n |-> 0, s |-> <<>>]

\* typeof
TypeOf(v) == v.t

\* JavaScript truthiness of a captured value (undefined or a string)
Truthy(v) == v.t = "string" /\ v.s # <<>>

\* `${v}` of a captured value (undefined or a string)
Render(v) == IF v.t = "undefined"
             THEN <<"u", "n", "d", "e", "f", "i", "n", "e", "d">>
             ELSE v.s

----------------------------------------------------------------------------
(* Regular expressions *)

\* Where the key of a match of /--?(\w+)/ that begins at index i starts;
\* 0 when no match begins at i.  The optional second dash is greedy.
KeyStartAt(s, i) ==
  IF s[i] # "-" THEN 0
  ELSE IF i + 2 <= Len(s) /\ s[i + 1] = "-" /\ IsWord(s[i + 2]) THEN i + 2
  ELSE IF i + 1 <= Len(s) /\ IsWord(s[i + 1]) THEN i + 1
  ELSE 0

\* Last index of the maximal run of word characters that starts at k.
WordRunEnd(s, k) ==
  CHOOSE e \in k..Len(s) :
    /\ \A m \in k..e : IsWord(s[m])
    /\ (e = Len(s) \/ ~IsWord(s[e + 1]))

NoMatch == [didMatch |-> FALSE, key |-> <<>>, val |-> Undefined]

\* arg.match(FLAG_REGEX) ?? [] : the leftmost match anywhere in arg (the
\* expression has no anchors); val is undefined when the "=..." group did
\* not take part in the match.  No token of the model holds a line
\* terminator, the one character the value group would stop at.
FLAG_REGEX(arg) ==
  LET starts == {i \in 1..Len(arg) : KeyStartAt(arg, i) # 0}
  IN IF starts = {} THEN NoMatch
     ELSE LET i == CHOOSE x \in starts : \A y \in starts : x <= y
              k == KeyStartAt(arg, i)
              e == WordRunEnd(arg, k)
          IN [didMatch |-> TRUE,
              key |-> SubSeq(arg, k, e),
              val |-> IF e < Len(arg) /\ arg[e + 1] = "="
                      THEN Str(SubSeq(arg, e + 2, Len(arg)))
                      ELSE Undefined]

\* NUMBER_REGEX.test(val): undefined is tested as the text "undefined"
NUMBER_REGEX(val) ==
  /\ val.t = "string"
  /\ val.s # <<>>
  /\ \A m \in 1..Len(val.s) : val.s[m] \in Digits

RECURSIVE DigitsValue(_)
DigitsValue(d) ==
  IF d = <<>> THEN 0
  ELSE 10 * DigitsValue(SubSeq(d, 1, Len(d) - 1)) + DigitVal[d[Len(d)]]

NaN == [t |-> "number", b |-> TRUE, n |-> 0, s |-> <<>>]

\* parseInt(val, 10): skips leading white space, takes an optional sign and
\* the longest prefix of digits; NaN when there is no digit (undefined is
\* converted to the text "undefined").
parseInt(val) ==
  IF val.t # "string" THEN NaN
  ELSE LET str == val.s
           ws == CHOOSE w \in 0..Len(str) :
                   /\ \A m \in 1..w : str[m] = " "
                   /\ (w = Len(str) \/ str[w + 1] # " ")
           r1 == SubSeq(str, ws + 1, Len(str))
           signed == r1 # <<>> /\ r1[1] \in {"-", "+"}
           r2 == IF signed THEN Tail(r1) ELSE r1
           nd == CHOOSE w \in 0..Len(r2) :
                   /\ \A m \in 1..w : r2[m] \in Digits
                   /\ (w = Len(r2) \/ r2[w + 1] \notin Digits)
           mag == DigitsValue(SubSeq(r2, 1, nd))
       IN IF nd = 0 THEN NaN
          ELSE Num(IF signed /\ r1[1] = "-" THEN 0 - mag ELSE mag)

----------------------------------------------------------------------------
(* Errors *)

NoError == [kind |-> "none", msg |-> "", key |-> <<>>, short |-> FALSE,
            first |-> Undefined, second |-> Undefined,
            given |-> Undefined, shown |-> <<>>,
            valueType |-> "", defaultValueType |-> ""]

UnknownFlagError(key, short) ==
  [NoError EXCEPT !.kind = "UnknownFlagError", !.key = key, !.short = short]

DuplicateFlagError(key, first, second) ==
  [NoError EXCEPT !.kind = "DuplicateFlagError", !.key = key,
                  !.first = first, !.second = second]

\* msg names the message template, shown is the given value as the two
\* templates that quote it render it
FlagParseError(msg, key, givenValue) ==
  [NoError EXCEPT !.kind = "FlagParseError", !.msg = msg, !.key = key,
                  !.given = givenValue,
                  !.shown = IF msg \in {"numeric", "boolean"}
                            THEN Render(givenValue) ELSE <<>>]

SchemaValidationError(msg, flag) ==
  [NoError EXCEPT !.kind = "SchemaValidationError", !.msg = msg, !.key = flag]

MissingRequiredFlagError(key) ==
  [NoError EXCEPT !.kind = "MissingRequiredFlagError", !.key = key]

InvalidDefaultValueError(key, valueType, defaultValueType) ==
  [NoError EXCEPT !.kind = "InvalidDefaultValueError", !.key = key,
                  !.valueType = valueType,
                  !.defaultValueType = defaultValueType]

----------------------------------------------------------------------------
(* Token parsers.  A parser returns the array of its pairs (ret) or throws  *)
(* (err).                                                                   *)

Pair(key, val) == [def |-> TRUE, key |-> key, val |-> val]
UndefinedPair  == [def |-> FALSE, key |-> <<>>, val |-> Undefined]

Return(pairs) == [err |-> NoError, ret |-> pairs]
Throw(e)      == [err |-> e, ret |-> <<>>]

parseFlagNoSchema(arg) ==
  LET m == FLAG_REGEX(arg)
  IN IF ~m.didMatch THEN Return(<<UndefinedPair>>)
     ELSE IF NUMBER_REGEX(m.val) /\ parseInt(m.val) # NaN
          THEN Return(<<Pair(m.key, parseInt(m.val))>>)
          ELSE Return(<<Pair(m.key, IF m.val = Undefined THEN Bool(TRUE)
                                                        ELSE m.val)>>)

\* schemas.find(pred): index of the first entry that satisfies pred, or 0
FindShort(schemas, char) ==
  LET hits == {x \in 1..Len(schemas) : schemas[x].short = Str(<<char>>)}
  IN IF hits = {} THEN 0 ELSE CHOOSE x \in hits : \A y \in hits : x <= y

\* FindLong that accepts an entry's short name as well as its long name
FindLongOrShort(schemas, key) ==
  LET hits == {x \in 1..Len(schemas) :
                 schemas[x].long = key \/ schemas[x].short = Str(key)}
  IN IF hits = {} THEN 0 ELSE CHOOSE x \in hits : \A y \in hits : x <= y

FindLong(schemas, key) ==
  LET hits == {x \in 1..Len(schemas) : schemas[x].long = key}
  IN IF hits = {} THEN 0 ELSE CHOOSE x \in hits : \A y \in hits : x <= y

\* ShortStack that gives every character the token's value when it has one
ShortStackValue(schemas, key, val) ==
  LET bad == {m \in 1..Len(key) :
                \/ FindShort(schemas, key[m]) = 0
                \/ schemas[FindShort(schemas, key[m])].valueType # "boolean"}
  IN IF bad = {}
     THEN Return([m \in 1..Len(key) |->
                    Pair(schemas[FindShort(schemas, key[m])].long,
                         IF val = Undefined THEN Bool(TRUE) ELSE val)])
     ELSE LET m == CHOOSE x \in bad : \A y \in bad : x <= y
          IN IF FindShort(schemas, key[m]) = 0
             THEN Throw(UnknownFlagError(<<key[m]>>, TRUE))
             ELSE Throw(FlagParseError("shortform", <<key[m]>>, val))

\* key.split("").forEach(...): the first character that throws ends the loop
ShortStack(schemas, key, val) ==
  LET bad == {m \in 1..Len(key) :
                \/ FindShort(schemas, key[m]) = 0
                \/ schemas[FindShort(schemas, key[m])].valueType # "boolean"}
  IN IF bad = {}
     THEN Return([m \in 1..Len(key) |->
                    Pair(schemas[FindShort(schemas, key[m])].long, Bool(TRUE))])
     ELSE LET m == CHOOSE x \in bad : \A y \in bad : x <= y
          IN IF FindShort(schemas, key[m]) = 0
             THEN Throw(UnknownFlagError(<<key[m]>>, TRUE))
             ELSE Throw(FlagParseError("shortform", <<key[m]>>, val))

parseFlagWithShema(schemas, arg) ==
  LET m == FLAG_REGEX(arg)
      x == FindLong(schemas, m.key)
  IN IF ~m.didMatch THEN Return(<<UndefinedPair>>)
     ELSE IF ~StartsWith(arg, <<"-", "-">>) THEN ShortStack(schemas, m.key, m.val)
     ELSE IF x = 0 THEN Throw(UnknownFlagError(m.key, FALSE))
     ELSE CASE schemas[x].valueType = "number" ->
                 IF parseInt(m.val) = NaN
                 THEN Throw(FlagParseError("numeric", m.key, m.val))
                 ELSE Return(<<Pair(schemas[x].long, parseInt(m.val))>>)
            [] schemas[x].valueType = "boolean" ->
                 IF Truthy(m.val) /\ m.val # Str(<<"t", "r", "u", "e">>)
                                  /\ m.val # Str(<<"f", "a", "l", "s", "e">>)
                 THEN Throw(FlagParseError("boolean", m.key, m.val))
                 ELSE Return(<<Pair(schemas[x].long,
                                    Bool(~Truthy(m.val)
                                         \/ m.val = Str(<<"t", "r", "u", "e">>)))>>)
            [] schemas[x].valueType = "string" ->
                 IF ~Truthy(m.val)
                 THEN Throw(FlagParseError("string", m.key, m.val))
                 ELSE Return(<<Pair(schemas[x].long, m.val)>>)
            [] OTHER -> Return(<<UndefinedPair>>)

----------------------------------------------------------------------------
(* Schema validation *)

\* CheckEntry with the value type checked before the default value
CheckEntryTypeFirst(schemas, x) ==
  LET e == schemas[x]
      longFlags  == {schemas[y].long : y \in 1..(x - 1)}
      shortFlags == {schemas[y].short : y \in 1..(x - 1)} \ {Undefined}
  IN IF Len(e.long) <= 1
       THEN SchemaValidationError("long flag must be greater than 1 character", e.long)
     ELSE IF e.long \in longFlags
       THEN SchemaValidationError("Duplicate long flag", e.long)
     ELSE IF e.short # Undefined /\ Len(e.short.s) # 1
       THEN SchemaValidationError("short flag must be exactly 1 character", e.long)
     ELSE IF e.short # Undefined /\ e.short \in shortFlags
       THEN SchemaValidationError("Duplicate short flag", e.short.s)
     ELSE IF e.valueType \notin {"string", "number", "boolean"}
       THEN SchemaValidationError("Invalid value type", e.long)
     ELSE IF e.defaultValue # Undefined /\ TypeOf(e.defaultValue) # e.valueType
       THEN InvalidDefaultValueError(e.long, e.valueType, TypeOf(e.defaultValue))
     ELSE NoError

\* The first check that entry x fails, given the long and short flags of
\* the entries before it (all of which passed).
CheckEntry(schemas, x) ==
  LET e == schemas[x]
      longFlags  == {schemas[y].long : y \in 1..(x - 1)}
      shortFlags == {schemas[y].short : y \in 1..(x - 1)} \ {Undefined}
  IN IF Len(e.long) <= 1
       THEN SchemaValidationError("long flag must be greater than 1 character", e.long)
     ELSE IF e.long \in longFlags
       THEN SchemaValidationError("Duplicate long flag", e.long)
     ELSE IF e.short # Undefined /\ Len(e.short.s) # 1
       THEN SchemaValidationError("short flag must be exactly 1 character", e.long)
     ELSE IF e.short # Undefined /\ e.short \in shortFlags
       THEN SchemaValidationError("Duplicate short flag", e.short.s)
     ELSE IF e.defaultValue # Undefined /\ TypeOf(e.defaultValue) # e.valueType
       THEN InvalidDefaultValueError(e.long, e.valueType, TypeOf(e.defaultValue))
     ELSE IF e.valueType \notin {"string", "number", "boolean"}
       THEN SchemaValidationError("Invalid value type", e.long)
     ELSE NoError

\* schemas.forEach(...): the first entry that fails a check throws
validateSchema(schemas) ==
  LET bad == {x \in 1..Len(schemas) : CheckEntry(schemas, x) # NoError}
  IN IF bad = {} THEN [err |-> NoError, ret |-> schemas]
     ELSE [err |-> CheckEntry(schemas, CHOOSE x \in bad : \A y \in bad : x <= y),
           ret |-> <<>>]

----------------------------------------------------------------------------
(* Inputs *)

\* The tokens args is drawn from: plain words, words with a dash inside,
\* tokens of dashes only, well-formed and malformed flags, long and short
\* forms with and without a value.
Tokens == {
    <<"a", "b">>,
    <<"a", "-", "b">>,
    <<"-">>,
    <<"-", "-">>,
    <<"-", "=", "x">>,
    <<"-", "-", "-", "a", "a">>,
    <<"-", "-", "a", "-", "b">>,
    <<"-", "a", " ", "b">>,
    <<"-", "-", "a", "a">>,
    <<"-", "-", "a", "a", "=">>,
    <<"-", "-", "a", "a", "=", "t", "r", "u", "e">>,
    <<"-", "-", "a", "a", "=", "f", "a", "l", "s", "e">>,
    <<"-", "-", "a", "a", "=", "1">>,
    <<"-", "a">>,
    <<"-", "a", "b">>,
    <<"-", "a", "a">>,
    <<"-", "a", "n">>,
    <<"-", "a", "z">>,
    <<"-", "a", "b", "=", "x">>,
    <<"-", "-", "n", "n", "=", "1", "2">>,
    <<"-", "-", "n", "n", "=", "1", "x">>,
    <<"-", "-", "n", "n">>,
    <<"-", "-", "n", "n", "=">>,
    <<"-", "-", "s", "s", "=", "1", "9", "4">>,
    <<"-", "-", "s", "s">>,
    <<"-", "-", "s", "s", "=">>,
    <<"-", "-", "z", "z">>,
    <<"-", "-", "a">>,
    <<"-", "-", "v", "a", "l", "u", "e", "O", "f">>,
    <<"-", "-", "b", "b">>
  }

ArgLists == UNION {[1..n -> Tokens] : n \in 0..MaxArgs}

Entry(long, short, required, defaultValue, valueType) ==
  [long |-> long, short |-> short, required |-> required,
   defaultValue |-> defaultValue, valueType |-> valueType]

\* booleans aa/a and bb/b, number nn/n, string ss/s
SchemaPlain ==
  << Entry(<<"a", "a">>, Str(<<"a">>), Undefined, Undefined, "boolean"),
     Entry(<<"b", "b">>, Str(<<"b">>), Undefined, Undefined, "boolean"),
     Entry(<<"n", "n">>, Str(<<"n">>), Undefined, Undefined, "number"),
     Entry(<<"s", "s">>, Str(<<"s">>), Undefined, Undefined, "string") >>

\* a required entry with a default, defaults on entries that are not required
SchemaDefaults ==
  << Entry(<<"a", "a">>, Str(<<"a">>), Bool(TRUE), Bool(FALSE), "boolean"),
     Entry(<<"b", "b">>, Str(<<"b">>), Undefined, Undefined, "boolean"),
     Entry(<<"n", "n">>, Undefined, Bool(FALSE), Num(7), "number"),
     Entry(<<"s", "s">>, Str(<<"s">>), Undefined, Str(<<"d">>), "string") >>

\* two required entries, one of them named like a method of every object
SchemaRequired ==
  << Entry(<<"v", "a", "l", "u", "e", "O", "f">>, Undefined, Bool(TRUE),
           Undefined, "boolean"),
     Entry(<<"n", "n">>, Str(<<"n">>), Bool(TRUE), Undefined, "number"),
     Entry(<<"a", "a">>, Str(<<"a">>), Undefined, Bool(TRUE), "boolean") >>

\* rejected by validateSchema
SchemaInvalid ==
  << Entry(<<"l">>, Str(<<"l">>), Undefined, Undefined, "boolean") >>

NoSchema == [def |-> FALSE, entries |-> <<>>]
Schema(entries) == [def |-> TRUE, entries |-> entries]

Schemas == {NoSchema, Schema(SchemaPlain), Schema(SchemaDefaults),
            Schema(SchemaRequired), Schema(SchemaInvalid)}

----------------------------------------------------------------------------
(* The flags object *)

\* flags starts as the object literal {}, and flags[key] reads through the
\* prototype chain: for a property name of Object.prototype (valueOf,
\* toString, constructor, hasOwnProperty, ...) it is a function, never
\* undefined.  Of those names, the one the tokens and schemas above spell.
ObjectPrototypeKeys == { <<"v", "a", "l", "u", "e", "O", "f">> }

HasOwn(obj, key) == \E x \in 1..Len(obj) : obj[x].key = key

\* obj[key]: the own property, else the inherited one, else undefined
Get(obj, key) ==
  IF HasOwn(obj, key)
  THEN obj[CHOOSE x \in 1..Len(obj) : obj[x].key = key].val
  ELSE IF key \in ObjectPrototypeKeys THEN Inherited ELSE Undefined

\* obj[key] = val for a key that is not an own property yet
Set(obj, key, val) == Append(obj, Pair(key, val))

RECURSIVE SelectSeqIdx(_, _)
\* the subsequence of s at the indices in keep, in order
SelectSeqIdx(s, keep) ==
  IF s = <<>> THEN <<>>
  ELSE LET front == SelectSeqIdx(SubSeq(s, 1, Len(s) - 1), keep)
       IN IF Len(s) \in keep THEN Append(front, s[Len(s)]) ELSE front

----------------------------------------------------------------------------
(* tiniargs, one step per array operation *)

VARIABLES args, schema, pc, positionals, validated, mapped, parsedFlags,
          flags, merged, error

vars == <<args, schema, pc, positionals, validated, mapped, parsedFlags,
          flags, merged, error>>

Init ==
  /\ args \in ArgLists
  /\ schema \in Schemas
  /\ pc = "filter"
  /\ positionals = <<>>
  /\ validated = <<>>
  /\ mapped = <<>>
  /\ parsedFlags = <<>>
  /\ flags = <<>>
  /\ merged = 0
  /\ error = NoError

\* FilterPositionals with the filter keeping the tokens FLAG_REGEX does not
\* match instead of the tokens that do not start with a dash
FilterPositionalsByRegex ==
  /\ pc = "filter"
  /\ positionals' = SelectSeqIdx(args, {x \in 1..Len(args) :
                                          ~FLAG_REGEX(args[x]).didMatch})
  /\ pc' = "validate"
  /\ UNCHANGED <<args, schema, validated, mapped, parsedFlags, flags, merged,
                 error>>

\* const positionals = args.filter((a) => !a.startsWith("-"))
FilterPositionals ==
  /\ pc = "filter"
  /\ positionals' = SelectSeqIdx(args, {x \in 1..Len(args) :
                                          ~StartsWith(args[x], <<"-">>)})
  /\ pc' = "validate"
  /\ UNCHANGED <<args, schema, validated, mapped, parsedFlags, flags, merged,
                 error>>

\* schema === undefined ? parseFlagNoSchema
\*                      : parseFlagWithShema(validateSchema(schema))
ChooseParser ==
  /\ pc = "validate"
  /\ IF ~schema.def
     THEN /\ pc' = "map"
          /\ UNCHANGED <<validated, error>>
     ELSE LET r == validateSchema(schema.entries)
          IN IF r.err # NoError
             THEN /\ error' = r.err
                  /\ pc' = "thrown"
                  /\ UNCHANGED validated
             ELSE /\ validated' = r.ret
                  /\ pc' = "map"
                  /\ UNCHANGED error
  /\ UNCHANGED <<args, schema, positionals, mapped, parsedFlags, flags, merged>>

flagParseFn(arg) ==
  IF ~schema.def THEN parseFlagNoSchema(arg)
                 ELSE parseFlagWithShema(validated, arg)

\* args.map(flagParseFn): the callback runs on the next token; mapped holds
\* one array per token already parsed
MapToken ==
  /\ pc = "map"
  /\ Len(mapped) < Len(args)
  /\ LET r == flagParseFn(args[Len(mapped) + 1])
     IN IF r.err # NoError
        THEN /\ error' = r.err
             /\ pc' = "thrown"
             /\ UNCHANGED mapped
        ELSE /\ mapped' = Append(mapped, r.ret)
             /\ UNCHANGED <<pc, error>>
  /\ UNCHANGED <<args, schema, positionals, validated, parsedFlags, flags,
                 merged>>

RECURSIVE Flat(_)
Flat(arrays) ==
  IF arrays = <<>> THEN <<>> ELSE Head(arrays) \o Flat(Tail(arrays))

\* .flat().filter((f) => f !== undefined)
FlatFilter ==
  /\ pc = "map"
  /\ Len(mapped) = Len(args)
  /\ LET flat == Flat(mapped)
     IN parsedFlags' = SelectSeqIdx(flat, {x \in 1..Len(flat) : flat[x].def})
  /\ pc' = "merge"
  /\ UNCHANGED <<args, schema, positionals, validated, mapped, flags, merged,
                 error>>

\* one call of the parsedFlags.forEach callback
MergePair ==
  /\ pc = "merge"
  /\ merged < Len(parsedFlags)
  /\ LET key == parsedFlags[merged + 1].key
         val == parsedFlags[merged + 1].val
     IN IF Get(flags, key) = Undefined
        THEN /\ flags' = Set(flags, key, val)
             /\ merged' = merged + 1
             /\ UNCHANGED <<pc, error>>
        ELSE /\ error' = DuplicateFlagError(key, Get(flags, key), val)
             /\ pc' = "thrown"
             /\ UNCHANGED <<flags, merged>>
  /\ UNCHANGED <<args, schema, positionals, validated, mapped, parsedFlags>>

\* parsedFlags.forEach is over; without a schema the result is returned
MergeDone ==
  /\ pc = "merge"
  /\ merged = Len(parsedFlags)
  /\ pc' = IF schema.def THEN "required" ELSE "returned"
  /\ UNCHANGED <<args, schema, positionals, validated, mapped, parsedFlags,
                 flags, merged, error>>

\* schema.filter((s) => s.required === true).forEach(...)
CheckRequired ==
  /\ pc = "required"
  /\ LET entries == schema.entries
         missing == {x \in 1..Len(entries) :
                       /\ entries[x].required = Bool(TRUE)
                       /\ Get(flags, entries[x].long) = Undefined}
     IN IF missing = {}
        THEN /\ pc' = "defaults"
             /\ UNCHANGED error
        ELSE /\ error' = MissingRequiredFlagError(
                           entries[CHOOSE x \in missing :
                                     \A y \in missing : x <= y].long)
             /\ pc' = "thrown"
  /\ UNCHANGED <<args, schema, positionals, validated, mapped, parsedFlags,
                 flags, merged>>

RECURSIVE FillFrom(_, _, _)
\* the forEach over the entries from index x on
FillFrom(entries, x, obj) ==
  IF x > Len(entries) THEN obj
  ELSE FillFrom(entries, x + 1,
         IF /\ entries[x].required \notin {Bool(TRUE)}
            /\ entries[x].defaultValue # Undefined
            /\ Get(obj, entries[x].long) = Undefined
         THEN Set(obj, entries[x].long, entries[x].defaultValue)
         ELSE obj)

\* schema.filter((s) => !s.required && s.defaultValue !== undefined)
\*       .forEach(...); return { positionals, flags }
FillDefaults ==
  /\ pc = "defaults"
  /\ flags' = FillFrom(schema.entries, 1, flags)
  /\ pc' = "returned"
  /\ UNCHANGED <<args, schema, positionals, validated, mapped, parsedFlags,
                 merged, error>>

Next ==
  \/ FilterPositionals
  \/ ChooseParser
  \/ MapToken
  \/ FlatFilter
  \/ MergePair
  \/ MergeDone
  \/ CheckRequired
  \/ FillDefaults

Spec == Init /\ [][Next]_vars

----------------------------------------------------------------------------
(* Calls whose schema is any list of entries, valid or not *)

\* Entries over long names of one and two characters, a short name that is
\* absent, empty or one character, a default that is absent or a boolean,
\* and value types that agree with the default, disagree with it, or are
\* no value type at all.
SchemaEntries ==
  {Entry(long, short, Undefined, dv[1], dv[2]) :
     long \in {<<"l">>, <<"a", "a">>, <<"b", "b">>},
     short \in {Undefined, Str(<<>>), Str(<<"a">>)},
     dv \in {<<Undefined, "boolean">>, <<Undefined, "flagval">>,
             <<Bool(TRUE), "boolean">>, <<Bool(TRUE), "string">>,
             <<Bool(TRUE), "flagval">>}}

SchemaLists == UNION {[1..n -> SchemaEntries] : n \in 0..MaxEntries}

\* one call that parses and returns under the schema of a boolean aa, one
\* that fails on an unknown flag under any accepted schema
SchemaArgLists == { << <<"-", "-", "a", "a">> >>, << <<"-", "-", "z", "z">> >> }

InitSchema ==
  /\ args \in SchemaArgLists
  /\ schema \in {Schema(entries) : entries \in SchemaLists}
  /\ pc = "filter"
  /\ positionals = <<>>
  /\ validated = <<>>
  /\ mapped = <<>>
  /\ parsedFlags = <<>>
  /\ flags = <<>>
  /\ merged = 0
  /\ error = NoError

SpecSchema == InitSchema /\ [][Next]_vars

----------------------------------------------------------------------------
(* The token grammar of the specification, matched against the whole      *)
(* token: one or two dashes, a non-empty key of word characters, and        *)
(* optionally "=" followed by any text.                                     *)

BeginsWithDash(t) == t # <<>> /\ t[1] = "-"

\* number of leading dashes the grammar would consume: 2 when the token
\* starts with "--", else 1
Dashes(t) == IF Len(t) >= 2 /\ t[2] = "-" THEN 2 ELSE 1

RECURSIVE WordPrefix(_)
\* the longest prefix of t made of word characters
WordPrefix(t) ==
  IF t = <<>> \/ ~IsWord(Head(t)) THEN <<>>
  ELSE <<Head(t)>> \o WordPrefix(Tail(t))

GrammarKey(t) == WordPrefix(SubSeq(t, Dashes(t) + 1, Len(t)))

\* what follows the key
GrammarRest(t) == SubSeq(t, Dashes(t) + Len(GrammarKey(t)) + 1, Len(t))

IsFlagToken(t) ==
  /\ BeginsWithDash(t)
  /\ GrammarKey(t) # <<>>
  /\ (GrammarRest(t) = <<>> \/ Head(GrammarRest(t)) = "=")

\* the captured value: undefined without "=", else the text after it
GrammarVal(t) ==
  IF GrammarRest(t) = <<>> THEN Undefined ELSE Str(Tail(GrammarRest(t)))

\* a token that begins with a dash and is not a flag of the grammar
IsMalformed(t) == BeginsWithDash(t) /\ ~IsFlagToken(t)

\* the call has ended
Ended == pc \in {"returned", "thrown"}

\* the parser threw on token x
ParserThrewOn(x) ==
  /\ pc = "thrown"
  /\ error.kind \in {"UnknownFlagError", "FlagParseError"}
  /\ x = Len(mapped) + 1

\* the pairs token x emitted, once the parser has returned for it
Emitted(x) == SelectSeqIdx(mapped[x], {y \in 1..Len(mapped[x]) : mapped[x][y].def})

----------------------------------------------------------------------------
(* Claims *)

RECURSIVE NonDash(_)
\* the subsequence of the tokens that do not begin with a dash
NonDash(ts) ==
  IF ts = <<>> THEN <<>>
  ELSE IF BeginsWithDash(Head(ts)) THEN NonDash(Tail(ts))
  ELSE <<Head(ts)>> \o NonDash(Tail(ts))

\* C1: whenever tiniargs returns, with or without a schema, positionals is
\* the subsequence of args of the tokens that do not begin with '-', in
\* order and with duplicates; no token beginning with '-' is in positionals.
C1_PositionalsAreNonDashTokens ==
  pc = "returned" =>
    /\ positionals = NonDash(args)
    /\ \A x \in 1..Len(positionals) : ~BeginsWithDash(positionals[x])

\* the call returned under a schema for two tokens, one of them kept as the
\* only positional although the flag pattern matches inside it
C1_Witness ==
  /\ pc = "returned"
  /\ schema.def
  /\ Len(args) = 2
  /\ Len(positionals) = 1
  /\ FLAG_REGEX(positionals[1]).didMatch

\* C2: a token that begins with '-' and does not match the whole-token flag
\* grammar is dropped: it emits no pair, is not a positional and makes no
\* parser fail, with or without a schema.
C2_MalformedTokensAreDropped ==
  \A x \in 1..Len(args) :
    IsMalformed(args[x]) =>
      /\ x <= Len(mapped) => Emitted(x) = <<>>
      /\ ~ParserThrewOn(x)
      /\ pc # "filter" => \A y \in 1..Len(positionals) : positionals[y] # args[x]

\* C3: a token that does not begin with '-' is only a positional: it emits
\* no pair and makes no parser fail, with or without a schema.
C3_PlainTokensEmitNothing ==
  \A x \in 1..Len(args) :
    ~BeginsWithDash(args[x]) =>
      /\ x <= Len(mapped) => Emitted(x) = <<>>
      /\ ~ParserThrewOn(x)

\* the least index whose key occurs at an earlier index too, or 0
FirstRepeat(pairs) ==
  LET rep == {y \in 1..Len(pairs) : \E x \in 1..(y - 1) : pairs[x].key = pairs[y].key}
  IN IF rep = {} THEN 0 ELSE CHOOSE y \in rep : \A z \in rep : y <= z

\* the first index that holds the key of index y
FirstOf(pairs, y) ==
  CHOOSE x \in 1..y : pairs[x].key = pairs[y].key
                      /\ \A z \in 1..(x - 1) : pairs[z].key # pairs[y].key

\* the error the claims expect for the first key that pairs holds twice
ExpectedDuplicate(pairs) ==
  DuplicateFlagError(pairs[FirstRepeat(pairs)].key,
                     pairs[FirstOf(pairs, FirstRepeat(pairs))].val,
                     pairs[FirstRepeat(pairs)].val)

\* C4: whenever the pairs emitted over all tokens hold the same key twice,
\* tiniargs fails with DuplicateFlagError carrying that key, the typed value
\* emitted earlier as first and the typed value emitted later as second;
\* the merge neither overwrites the first value nor goes past the repeat.
C4_DuplicateKeyFails ==
  FirstRepeat(parsedFlags) # 0 =>
    IF pc = "merge"
    THEN /\ merged < FirstRepeat(parsedFlags)
         /\ \A x \in 1..merged :
              Get(flags, parsedFlags[x].key)
                = parsedFlags[FirstOf(parsedFlags, x)].val
    ELSE /\ pc = "thrown"
         /\ error = ExpectedDuplicate(parsedFlags)

\* the result of parsing token x on its own, as tiniargs would parse it
ParseOf(x) ==
  IF schema.def THEN parseFlagWithShema(schema.entries, args[x])
                ELSE parseFlagNoSchema(args[x])

RECURSIVE PairsUpTo(_)
\* the pairs emitted by the tokens at positions 1..j
PairsUpTo(j) ==
  IF j = 0 THEN <<>>
  ELSE LET r == ParseOf(j).ret
       IN PairsUpTo(j - 1) \o SelectSeqIdx(r, {y \in 1..Len(r) : r[y].def})

\* the least j such that the tokens up to j all parse and their pairs hold
\* a key twice, or 0
FirstDuplicatePosition ==
  LET js == {j \in 1..Len(args) :
               /\ \A x \in 1..j : ParseOf(x).err = NoError
               /\ FirstRepeat(PairsUpTo(j)) # 0}
  IN IF js = {} THEN 0 ELSE CHOOSE j \in js : \A z \in js : j <= z

SchemaAccepted == ~schema.def \/ validateSchema(schema.entries).err = NoError

\* C5: duplicate detection is fail-fast in token order: once the pairs of
\* the tokens up to position j hold a key twice, the call fails with
\* DuplicateFlagError for that first duplicate whatever the tokens after
\* position j are: no later unknown flag or value that cannot be coerced
\* replaces it with UnknownFlagError or FlagParseError.
C5_DuplicateFailsBeforeLaterTokens ==
  (SchemaAccepted /\ FirstDuplicatePosition # 0 /\ Ended) =>
    /\ pc = "thrown"
    /\ error = ExpectedDuplicate(PairsUpTo(FirstDuplicatePosition))

\* a schema was given and validateSchema has accepted it
InSchemaMode == schema.def /\ pc \notin {"filter", "validate"} /\ validated = schema.entries

\* a flag of the grammar with one dash / with two dashes
IsShortForm(t) == IsFlagToken(t) /\ Dashes(t) = 1
IsLongForm(t)  == IsFlagToken(t) /\ Dashes(t) = 2

EntriesWithShort(char) ==
  {x \in 1..Len(schema.entries) : schema.entries[x].short = Str(<<char>>)}

EntriesWithLong(key) ==
  {x \in 1..Len(schema.entries) : schema.entries[x].long = key}

RECURSIVE ExpandShort(_)
\* what the specification expects of the characters of a short-form key,
\* scanned from the left
ExpandShort(key) ==
  IF key = <<>> THEN Return(<<>>)
  ELSE IF EntriesWithShort(Head(key)) = {}
       THEN Throw(UnknownFlagError(<<Head(key)>>, TRUE))
  ELSE LET e == schema.entries[CHOOSE x \in EntriesWithShort(Head(key)) : TRUE]
           rest == ExpandShort(Tail(key))
       IN IF e.valueType # "boolean" THEN Throw(FlagParseError("", <<>>, Undefined))
          ELSE IF rest.err # NoError THEN rest
          ELSE Return(<<Pair(e.long, Bool(TRUE))>> \o rest.ret)

\* C6: under a schema a single-dash flag token is expanded character by
\* character from the left: the first character that is no entry's short
\* name fails with UnknownFlagError carrying it, the first character of an
\* entry that is not boolean fails with FlagParseError, and otherwise the
\* token emits (long name, true) per character in order, whatever "=value"
\* suffix it carries.
C6_ShortStackExpansion ==
  InSchemaMode =>
    \A x \in 1..Len(args) :
      IsShortForm(args[x]) =>
        LET exp == ExpandShort(GrammarKey(args[x]))
        IN /\ x <= Len(mapped) => exp.err = NoError /\ mapped[x] = exp.ret
           /\ ParserThrewOn(x) =>
                /\ error.kind = exp.err.kind
                /\ error.kind = "UnknownFlagError" =>
                     error.key = exp.err.key /\ error.short

\* a stack of two short flags with a "=value" suffix has been expanded
C6_Witness ==
  /\ InSchemaMode
  /\ \E x \in 1..Len(mapped) :
       /\ IsShortForm(args[x])
       /\ GrammarVal(args[x]) # Undefined
       /\ Len(mapped[x]) = 2
       /\ mapped[x][1].key # mapped[x][2].key

\* text of an integer: an optional sign and one or more digits
IsIntegerText(v) ==
  /\ v.t = "string"
  /\ LET d == IF v.s # <<>> /\ v.s[1] \in {"-", "+"} THEN Tail(v.s) ELSE v.s
     IN d # <<>> /\ \A m \in 1..Len(d) : d[m] \in Digits

IntegerOfText(v) ==
  IF v.s[1] = "-" THEN 0 - DigitsValue(Tail(v.s))
  ELSE IF v.s[1] = "+" THEN DigitsValue(Tail(v.s))
  ELSE DigitsValue(v.s)

LongEntryType(t) ==
  IF EntriesWithLong(GrammarKey(t)) = {} THEN "none"
  ELSE schema.entries[CHOOSE x \in EntriesWithLong(GrammarKey(t)) : TRUE].valueType

\* C7: under a schema a double-dash token whose key is the long name of a
\* number entry yields (long, n) only when its value is an integer n, and
\* fails with FlagParseError (key the flag, given value the captured text,
\* shown as "undefined" when there is none) when the value is missing,
\* empty or not an integer.
C7_NumberFlagNeedsInteger ==
  InSchemaMode =>
    \A x \in 1..Len(args) :
      (IsLongForm(args[x]) /\ LongEntryType(args[x]) = "number") =>
        LET key == GrammarKey(args[x])
            val == GrammarVal(args[x])
        IN /\ x <= Len(mapped) =>
                /\ IsIntegerText(val)
                /\ mapped[x] = <<Pair(key, Num(IntegerOfText(val)))>>
           /\ ParserThrewOn(x) =>
                /\ ~IsIntegerText(val)
                /\ error.kind = "FlagParseError"
                /\ error.key = key
                /\ error.given = val
                /\ error.shown = Render(val)

\* what the specification expects of a long-form token of a boolean or
\* string entry or of no entry: the error kind, or "none" and the value
ExpectedLong(t) ==
  LET val == GrammarVal(t)
      empty == val = Undefined \/ val = Str(<<>>)
  IN CASE LongEntryType(t) = "none" -> [kind |-> "UnknownFlagError", val |-> Undefined]
       [] LongEntryType(t) = "boolean" ->
            IF empty \/ val = Str(<<"t", "r", "u", "e">>)
              THEN [kind |-> "none", val |-> Bool(TRUE)]
            ELSE IF val = Str(<<"f", "a", "l", "s", "e">>)
              THEN [kind |-> "none", val |-> Bool(FALSE)]
            ELSE [kind |-> "FlagParseError", val |-> Undefined]
       [] LongEntryType(t) = "string" ->
            IF empty THEN [kind |-> "FlagParseError", val |-> Undefined]
                     ELSE [kind |-> "none", val |-> val]

\* C8: under a schema a double-dash token is resolved by its whole key
\* against the long names: no such long name fails with UnknownFlagError
\* (a short name is not a long name); a boolean entry gives true for no
\* value, an empty value and "true", false for "false", FlagParseError
\* otherwise; a string entry stores a non-empty value unchanged as a string
\* and fails with FlagParseError for no value or an empty one.
C8_LongFormResolution ==
  InSchemaMode =>
    \A x \in 1..Len(args) :
      (IsLongForm(args[x]) /\ LongEntryType(args[x]) # "number") =>
        LET exp == ExpectedLong(args[x])
        IN /\ x <= Len(mapped) =>
                /\ exp.kind = "none"
                /\ mapped[x] = <<Pair(GrammarKey(args[x]), exp.val)>>
           /\ ParserThrewOn(x) =>
                /\ error.kind = exp.kind
                /\ error.key = GrammarKey(args[x])
                /\ error.kind = "UnknownFlagError" => ~error.short

\* an all-digit value of a string entry has been emitted, and a boolean
\* entry has been given "false"
C8_Witness ==
  /\ InSchemaMode
  /\ Len(mapped) = 2
  /\ IsLongForm(args[1]) /\ LongEntryType(args[1]) = "string"
  /\ NUMBER_REGEX(mapped[1][1].val)
  /\ IsLongForm(args[2]) /\ mapped[2][1].val = Bool(FALSE)

\* C9: without a schema every flag token emits exactly one pair, its key
\* the whole captured word also for a single dash, its value the integer
\* for a value of decimal digits only, true for no "=value" part and for an
\* empty value, and the captured text as a string otherwise.
C9_NoSchemaPair ==
  (~schema.def) =>
    \A x \in 1..Len(mapped) :
      IsFlagToken(args[x]) =>
        LET val == GrammarVal(args[x])
        IN mapped[x] = <<Pair(GrammarKey(args[x]),
                              IF NUMBER_REGEX(val) THEN Num(DigitsValue(val.s))
                              ELSE IF val = Undefined \/ val = Str(<<>>)
                                   THEN Bool(TRUE)
                              ELSE val)>>

\* the input produced a pair for this long name
Produced(long) == \E x \in 1..Len(parsedFlags) : parsedFlags[x].key = long

\* the value the input produced for this long name
ProducedValue(long) ==
  parsedFlags[CHOOSE x \in 1..Len(parsedFlags) : parsedFlags[x].key = long].val

\* the entries marked required whose long name the input did not produce
MissingRequired ==
  {x \in 1..Len(schema.entries) :
     /\ schema.entries[x].required = Bool(TRUE)
     /\ ~Produced(schema.entries[x].long)}

\* C10: under a schema, after the merge, the required check comes first: an
\* entry with required = true that the input did not produce makes the call
\* fail with MissingRequiredFlagError naming a missing long flag, default or
\* not; when none is missing, every entry that is not required, declares a
\* default and was not produced gets flags[long] = defaultValue, a value
\* from the input is never replaced, and an absent entry that is not
\* required and has no default stays absent.
C10_RequiredThenDefaults ==
  InSchemaMode =>
    /\ pc \in {"defaults", "returned"} => MissingRequired = {}
    /\ (pc = "thrown" /\ error.kind = "MissingRequiredFlagError") =>
         \E x \in MissingRequired : error.key = schema.entries[x].long
    /\ pc = "returned" =>
         \A x \in 1..Len(schema.entries) :
           LET e == schema.entries[x]
           IN IF Produced(e.long)
                THEN HasOwn(flags, e.long) /\ Get(flags, e.long) = ProducedValue(e.long)
              ELSE IF e.required # Bool(TRUE) /\ e.defaultValue # Undefined
                THEN HasOwn(flags, e.long) /\ Get(flags, e.long) = e.defaultValue
              ELSE ~HasOwn(flags, e.long)

RECURSIVE FirstViolation(_, _, _)
\* The error the specification expects of the entries from the first one
\* on, given the long and short names seen so far: the checks in the order
\* (1) long too short, (2) long seen, (3) short present and not of length 1,
\* (4) short seen, (5) default of another type, (6) unknown value type.
FirstViolation(entries, seenLong, seenShort) ==
  IF entries = <<>> THEN NoError
  ELSE LET e == Head(entries)
           hasShort == e.short.t = "string"
       IN CASE Len(e.long) <= 1 ->
                 SchemaValidationError("long flag must be greater than 1 character", e.long)
            [] Len(e.long) > 1 /\ e.long \in seenLong ->
                 SchemaValidationError("Duplicate long flag", e.long)
            [] Len(e.long) > 1 /\ e.long \notin seenLong
               /\ hasShort /\ Len(e.short.s) # 1 ->
                 SchemaValidationError("short flag must be exactly 1 character", e.long)
            [] Len(e.long) > 1 /\ e.long \notin seenLong
               /\ hasShort /\ Len(e.short.s) = 1 /\ e.short.s \in seenShort ->
                 SchemaValidationError("Duplicate short flag", e.short.s)
            [] OTHER ->
                 IF e.defaultValue.t # "undefined" /\ e.defaultValue.t # e.valueType
                 THEN InvalidDefaultValueError(e.long, e.valueType, e.defaultValue.t)
                 ELSE IF e.valueType \notin {"string", "number", "boolean"}
                 THEN SchemaValidationError("Invalid value type", e.long)
                 ELSE FirstViolation(Tail(entries), seenLong \cup {e.long},
                        IF hasShort THEN seenShort \cup {e.short.s} ELSE seenShort)

\* C11: a given schema is validated before any token is parsed: for an
\* invalid schema no token is ever parsed and the call fails, whatever args
\* is, with the error of the first entry in order that violates a rule and
\* of its first failing check in the order (1) long of length <= 1, (2) long
\* already seen, (3) short present with length other than 1, the empty
\* string included, (4) short already seen, (5) default of another type
\* than valueType (InvalidDefaultValueError), (6) valueType not string,
\* number or boolean; a schema that violates none is accepted and passed on
\* unchanged.
C11_SchemaValidatedFirst ==
  schema.def =>
    LET exp == FirstViolation(schema.entries, {}, {})
    IN IF exp # NoError
       THEN /\ mapped = <<>> /\ parsedFlags = <<>> /\ flags = <<>>
            /\ pc \in {"filter", "validate", "thrown"}
            /\ pc = "thrown" => error = exp
       ELSE /\ error.kind \notin {"SchemaValidationError", "InvalidDefaultValueError"}
            /\ pc \notin {"filter", "validate"} => validated = schema.entries

\* the call failed on the second entry of a schema, on its default value,
\* although its value type is no value type either
C11_Witness ==
  /\ pc = "thrown"
  /\ Len(schema.entries) = 2
  /\ error.kind = "InvalidDefaultValueError"
  /\ error.key = schema.entries[2].long
  /\ schema.entries[2].valueType = "flagval"
  /\ FLAG_REGEX(args[1]).key = <<"z", "z">>

\* C12: under a schema, at every step of the merge and in every returned
\* result, each key of flags is the long name of a schema entry, never a
\* short name or an undeclared key, and the runtime type of its value is
\* that entry's valueType, whether it came from a long-form token, a short
\* stack or a default; and a returned result holds the long name of every
\* entry with required = true.
C12_FlagsMatchSchema ==
  InSchemaMode =>
    /\ \A x \in 1..Len(flags) :
         \E y \in 1..Len(schema.entries) :
           /\ schema.entries[y].long = flags[x].key
           /\ TypeOf(flags[x].val) = schema.entries[y].valueType
           /\ flags[x].val # NaN
    /\ pc = "returned" =>
         \A y \in 1..Len(schema.entries) :
           schema.entries[y].required = Bool(TRUE) =>
             \E x \in 1..Len(flags) : flags[x].key = schema.entries[y].long

====
